---- MODULE Spec2Model ----
(***************************************************************************)
(* The clock-system peripheral of the MSP430 simulator (simio_clock.c):    *)
(* a Basic / Basic+ clock module with a DCO frequency model evaluated in   *)
(* IEEE-754 double arithmetic, register read/write dispatch, configuration *)
(* parsing, the calibration-constant search and the clock-domain stepper.  *)
(*                                                                         *)
(* C integers are kept at their width: an int32_t / int is an integer in   *)
(* INT32_MIN..INT32_MAX, a uint32_t is held as the int32_t with the same   *)
(* bit pattern, a uint8_t is 0..255.  A double is held as its exact value   *)
(* m * 2^e with a 53-bit m, and every double operation rounds to nearest,  *)
(* ties to even.  Texts are sequences of ASCII codes.                      *)
(***************************************************************************)
EXTENDS Integers, Sequences, FiniteSets, TLC

(***************************************************************************)
(* Natural numbers of any size: little-endian sequences of 15-bit limbs,   *)
(* no leading zero limb, <<>> for 0.  They carry the mantissas and the     *)
(* exact products and quotients that the double operations round.          *)
(***************************************************************************)
LIMB == 2 ^ 15

Pow2(k) == IF k <= 0 THEN 1 ELSE 2 ^ k

RECURSIVE BTrim(_)
BTrim(a) ==
    IF a = <<>> THEN <<>>
    ELSE IF a[Len(a)] = 0 THEN BTrim(SubSeq(a, 1, Len(a) - 1)) ELSE a

BN(n) ==
    IF n = 0 THEN <<>>
    ELSE IF n < LIMB THEN <<n>>
    ELSE IF n \div LIMB < LIMB THEN <<n % LIMB, n \div LIMB>>
    ELSE <<n % LIMB, (n \div LIMB) % LIMB, n \div (LIMB * LIMB)>>

BLimb(a, i) == IF i >= 1 /\ i <= Len(a) THEN a[i] ELSE 0

RECURSIVE BAddC(_, _, _, _)
BAddC(a, b, i, c) ==
    IF i > Len(a) /\ i > Len(b)
    THEN IF c = 0 THEN <<>> ELSE <<c>>
    ELSE LET s == BLimb(a, i) + BLimb(b, i) + c
         IN  <<s % LIMB>> \o BAddC(a, b, i + 1, s \div LIMB)

BAdd(a, b) == BAddC(a, b, 1, 0)

\* a - b for a >= b
RECURSIVE BSubC(_, _, _, _)
BSubC(a, b, i, c) ==
    IF i > Len(a) THEN <<>>
    ELSE LET s == BLimb(a, i) - BLimb(b, i) - c
         IN  IF s < 0 THEN <<s + LIMB>> \o BSubC(a, b, i + 1, 1)
                      ELSE <<s>> \o BSubC(a, b, i + 1, 0)

BSub(a, b) == BTrim(BSubC(a, b, 1, 0))

\* -1, 0, 1 as a < b, a = b, a > b
RECURSIVE BCmpAt(_, _, _)
BCmpAt(a, b, i) ==
    IF i = 0 THEN 0
    ELSE IF a[i] < b[i] THEN -1
    ELSE IF a[i] > b[i] THEN 1
    ELSE BCmpAt(a, b, i - 1)

BCmp(a, b) ==
    IF Len(a) < Len(b) THEN -1
    ELSE IF Len(a) > Len(b) THEN 1
    ELSE BCmpAt(a, b, Len(a))

\* a * k for one limb k
RECURSIVE BMulLimbC(_, _, _, _)
BMulLimbC(a, k, i, c) ==
    IF i > Len(a) THEN (IF c = 0 THEN <<>> ELSE <<c>>)
    ELSE LET s == a[i] * k + c
         IN  <<s % LIMB>> \o BMulLimbC(a, k, i + 1, s \div LIMB)

BMulLimb(a, k) == IF k = 0 \/ a = <<>> THEN <<>> ELSE BMulLimbC(a, k, 1, 0)

BShlLimbs(a, n) == IF a = <<>> THEN <<>> ELSE [i \in 1..n |-> 0] \o a

RECURSIVE BMulAt(_, _, _)
BMulAt(a, b, j) ==
    IF j > Len(b) THEN <<>>
    ELSE BAdd(BShlLimbs(BMulLimb(a, b[j]), j - 1), BMulAt(a, b, j + 1))

BMul(a, b) ==
    IF a = <<>> \/ b = <<>> THEN <<>>
    ELSE IF Len(a) >= Len(b) THEN BMulAt(a, b, 1) ELSE BMulAt(b, a, 1)

RECURSIVE BitsOf(_)
BitsOf(n) == IF n = 0 THEN 0 ELSE 1 + BitsOf(n \div 2)

BBitLen(a) == IF a = <<>> THEN 0 ELSE 15 * (Len(a) - 1) + BitsOf(a[Len(a)])

\* a * 2^k
BShl(a, k) ==
    IF a = <<>> THEN <<>>
    ELSE BShlLimbs(BMulLimb(a, Pow2(k % 15)), k \div 15)

\* floor(a / 2^k)
BShr(a, k) ==
    LET d == k \div 15
        r == k % 15
        n == Len(a) - d
    IN  IF n <= 0 THEN <<>>
        ELSE BTrim([i \in 1..n |->
                 (a[i + d] \div Pow2(r))
                 + (BLimb(a, i + d + 1) % Pow2(r)) * Pow2(15 - r)])

\* bit k (0 = least significant) of a
BBit(a, k) == (BLimb(a, k \div 15 + 1) \div Pow2(k % 15)) % 2

\* some bit below bit k of a is set
BLowBits(a, k) ==
    \/ \E i \in 1..(k \div 15) : BLimb(a, i) # 0
    \/ BLimb(a, k \div 15 + 1) % Pow2(k % 15) # 0

RECURSIVE BPow(_, _)
BPow(a, n) == IF n = 0 THEN <<1>> ELSE BMul(a, BPow(a, n - 1))

\* n more quotient bits of r / b, for r < b: the bits (as a number below
\* 2^n, n <= 15) and the remainder
RECURSIVE BDivStep(_, _, _, _)
BDivStep(r, b, n, q) ==
    IF n = 0 THEN [q |-> q, r |-> r]
    ELSE IF BCmp(BAdd(r, r), b) >= 0
         THEN BDivStep(BSub(BAdd(r, r), b), b, n - 1, 2 * q + 1)
         ELSE BDivStep(BAdd(r, r), b, n - 1, 2 * q)

\* the next k limbs of the quotient of r / b, for r < b, the lowest first;
\* a remainder left at the end is kept as a 1 in the lowest bit
RECURSIVE BDivLimbs(_, _, _)
BDivLimbs(r, b, k) ==
    LET c == BDivStep(r, b, 15, 0)
    IN  IF k = 1
        THEN <<IF c.r # <<>> /\ c.q % 2 = 0 THEN c.q + 1 ELSE c.q>>
        ELSE BDivLimbs(c.r, b, k - 1) \o <<c.q>>

\* floor(a * 2^60 / b) for 0 < a < 2 * b, its lowest bit set when the
\* division left a remainder (the bit is far below the 53 a double keeps,
\* so it tells the rounding only that the quotient is inexact)
BDiv60(a, b) ==
    IF BCmp(a, b) >= 0
    THEN BTrim(BDivLimbs(BSub(a, b), b, 4) \o <<1>>)
    ELSE BTrim(BDivLimbs(a, b, 4))

\* the value of a number below 2^31
BToInt(a) == BLimb(a, 1) + BLimb(a, 2) * LIMB + BLimb(a, 3) * LIMB * LIMB

(***************************************************************************)
(* IEEE-754 binary64.  A finite nonzero double is (-1)^neg * m * 2^e with  *)
(* 2^52 <= m < 2^53; zero has m = <<>>.  The values of this program stay   *)
(* far inside the exponent range, so no operation overflows or goes        *)
(* subnormal.  Every operation is the exact result rounded to nearest,     *)
(* ties to even (the default rounding mode, which the program never        *)
(* changes).                                                               *)
(***************************************************************************)
DNum(neg, m, e) == [k |-> "num", neg |-> neg, m |-> m, e |-> e]

DZero == DNum(FALSE, <<>>, 0)

DNaN == [k |-> "nan", neg |-> FALSE, m |-> <<>>, e |-> 0]

DInf(neg) == [k |-> "inf", neg |-> neg, m |-> <<>>, e |-> 0]

\* q1 * 2^e for a rounded q1 <= 2^53: 2^53 itself has 54 bits
DRoundCarry(neg, q1, e) ==
    IF BBitLen(q1) = 54 THEN DNum(neg, BShr(q1, 1), e + 1) ELSE DNum(neg, q1, e)

\* the double nearest to mm * 2^ee, where mm has 53 + sh bits: to nearest,
\* ties to even
DRoundShift(neg, mm, ee, sticky, sh) ==
    LET q  == BShr(mm, sh)
        up == /\ BBit(mm, sh - 1) = 1
              /\ (sticky \/ BLowBits(mm, sh - 1) \/ BBit(q, 0) = 1)
    IN  IF sh <= 0 THEN DNum(neg, BShl(mm, -sh), ee + sh)
        ELSE DRoundCarry(neg, IF up THEN BAdd(q, <<1>>) ELSE q, ee + sh)

\* the double nearest to mm * 2^ee (plus a little more, below the last bit
\* of mm, when sticky)
DRound(neg, mm, ee, sticky) ==
    IF mm = <<>> THEN DNum(neg, <<>>, 0)
    ELSE DRoundShift(neg, mm, ee, sticky, BBitLen(mm) - 53)

\* (double) n for an int32_t n: exact
DFromInt(n) ==
    DRound(n < 0,
           IF n >= 0 THEN BN(n)
           ELSE IF n = -2147483647 - 1 THEN <<0, 0, 2>>
           ELSE BN(-n),
           0, FALSE)

DIsZero(x) == x.k = "num" /\ x.m = <<>>

DMul(x, y) ==
    LET neg == (x.neg # y.neg)
    IN  IF x.k = "nan" \/ y.k = "nan" THEN DNaN
        ELSE IF x.k = "inf" \/ y.k = "inf"
             THEN (IF DIsZero(x) \/ DIsZero(y) THEN DNaN ELSE DInf(neg))
        ELSE DRound(neg, BMul(x.m, y.m), x.e + y.e, FALSE)

\* the double nearest to (a / b) * 2^ee, for a, b > 0
DQuot(neg, a, b, ee) ==
    LET la == BBitLen(a)
        lb == BBitLen(b)
        a1 == IF la < lb THEN BShl(a, lb - la) ELSE a
        b1 == IF lb < la THEN BShl(b, la - lb) ELSE b
    IN  DRound(neg, BDiv60(a1, b1), ee + (la - lb) - 60, FALSE)

DDiv(x, y) ==
    LET neg == (x.neg # y.neg)
    IN  IF x.k = "nan" \/ y.k = "nan" THEN DNaN
        ELSE IF x.k = "inf" THEN (IF y.k = "inf" THEN DNaN ELSE DInf(neg))
        ELSE IF y.k = "inf" THEN DNum(neg, <<>>, 0)
        ELSE IF DIsZero(y) THEN (IF DIsZero(x) THEN DNaN ELSE DInf(neg))
        ELSE IF DIsZero(x) THEN DNum(neg, <<>>, 0)
        ELSE DQuot(neg, x.m, y.m, x.e - y.e)

\* -1, 0, 1 as |x| < |y|, |x| = |y|, |x| > |y|, for finite x and y
DCmpMag(x, y) ==
    IF DIsZero(x) THEN (IF DIsZero(y) THEN 0 ELSE -1)
    ELSE IF DIsZero(y) THEN 1
    ELSE IF x.e < y.e THEN -1
    ELSE IF x.e > y.e THEN 1
    ELSE BCmp(x.m, y.m)

DAdd(x, y) ==
    LET lo == IF x.e < y.e THEN x.e ELSE y.e
        xm == BShl(x.m, x.e - lo)
        ym == BShl(y.m, y.e - lo)
        c  == BCmp(xm, ym)
    IN  IF x.k = "nan" \/ y.k = "nan" THEN DNaN
        ELSE IF x.k = "inf"
             THEN (IF y.k = "inf" /\ x.neg # y.neg THEN DNaN ELSE x)
        ELSE IF y.k = "inf" THEN y
        ELSE IF DIsZero(x) THEN (IF DIsZero(y) THEN DNum(x.neg /\ y.neg, <<>>, 0) ELSE y)
        ELSE IF DIsZero(y) THEN x
        ELSE IF x.neg = y.neg THEN DRound(x.neg, BAdd(xm, ym), lo, FALSE)
        ELSE IF c = 0 THEN DZero
        ELSE IF c > 0 THEN DRound(x.neg, BSub(xm, ym), lo, FALSE)
        ELSE DRound(y.neg, BSub(ym, xm), lo, FALSE)

\* x < y, x <= y as C compares doubles: false when either is a NaN
DLess(x, y) ==
    /\ x.k # "nan" /\ y.k # "nan"
    /\ IF x.k = "inf" THEN x.neg /\ ~(y.k = "inf" /\ y.neg)
       ELSE IF y.k = "inf" THEN ~y.neg
       ELSE IF DIsZero(x) /\ DIsZero(y) THEN FALSE
       ELSE IF DIsZero(x) THEN ~y.neg
       ELSE IF DIsZero(y) THEN x.neg
       ELSE IF x.neg # y.neg THEN x.neg
       ELSE IF x.neg THEN DCmpMag(x, y) > 0
       ELSE DCmpMag(x, y) < 0

DEq(x, y) ==
    /\ x.k # "nan" /\ y.k # "nan"
    /\ \/ x.k = "num" /\ y.k = "num" /\ DIsZero(x) /\ DIsZero(y)
       \/ x.k = y.k /\ x.neg = y.neg /\ x.m = y.m /\ x.e = y.e

DLessEq(x, y) == DLess(x, y) \/ DEq(x, y)

\* pow(x, n) of <math.h> for a finite x > 0 or a NaN x and an integer n:
\* pow(x, 0) is 1 for every x, a NaN included; otherwise the double
\* nearest to x^n
DPow(x, n) ==
    LET pm == BPow(x.m, IF n < 0 THEN -n ELSE n)
        pe == x.e * (IF n < 0 THEN -n ELSE n)
    IN  IF n = 0 THEN DRound(FALSE, <<1>>, 0, FALSE)
        ELSE IF x.k = "nan" THEN DNaN
        ELSE IF n > 0 THEN DRound(FALSE, pm, pe, FALSE)
        ELSE DQuot(FALSE, <<1>>, pm, 0 - pe)

\* the double a decimal literal or strtod gives for n / 10^d: the nearest
DDec(n, d) ==
    IF n = 0 THEN DZero ELSE DQuot(FALSE, BN(n), BPow(<<10>>, d), 0)

INT32_MAX == 2147483647

INT32_MIN == -2147483647 - 1

\* The builds: C leaves some operations of this program undefined, and the
\* machine the program is built for decides what they do.  ub names it.
Builds == {"x86", "arm"}

\* (int32_t) x where C leaves it undefined (a NaN, an infinity, a value
\* outside int32_t): the x86 conversion gives INT32_MIN; the ARM one gives
\* 0 for a NaN and the nearest int32_t otherwise
CastUndefined(x, ub) ==
    IF ub = "x86" THEN INT32_MIN
    ELSE IF x.k = "nan" THEN 0
    ELSE IF x.neg THEN INT32_MIN ELSE INT32_MAX

\* (int32_t) x: the value truncated toward zero
DToInt32(x, ub) ==
    LET t == IF x.e >= 0 THEN BShl(x.m, x.e) ELSE BShr(x.m, 0 - x.e)
    IN  IF x.k # "num" THEN CastUndefined(x, ub)
        ELSE IF DIsZero(x) THEN 0
        ELSE IF x.e > 0 THEN CastUndefined(x, ub)
        ELSE IF BBitLen(t) > 32 THEN CastUndefined(x, ub)
        ELSE IF BBitLen(t) = 32
             THEN (IF x.neg /\ t = <<0, 0, 2>> THEN INT32_MIN ELSE CastUndefined(x, ub))
        ELSE IF x.neg THEN 0 - BToInt(t) ELSE BToInt(t)

(***************************************************************************)
(* C integer arithmetic at 32 bits.  U32(x) is the unsigned value of the   *)
(* bit pattern x as a natural number; Wrap32 takes a natural number back   *)
(* to the int32_t with its low 32 bits.  Signed overflow is undefined in   *)
(* C; the program's builds compile it as the wrapping machine operation,   *)
(* which is what these operators give.                                     *)
(***************************************************************************)
U32(x) == IF x >= 0 THEN BN(x) ELSE BAdd(BN(x - INT32_MIN), <<0, 0, 2>>)

Wrap32(a) ==
    LET top == BLimb(a, 3) % 4
    IN  BLimb(a, 1) + BLimb(a, 2) * LIMB
        + (IF top >= 2 THEN top - 4 ELSE top) * LIMB * LIMB

Add32(x, y) == Wrap32(BAdd(U32(x), U32(y)))

Mul32(x, y) == Wrap32(BMul(U32(x), U32(y)))

\* x / y and x % y of two unsigned 32-bit values, for y > 0 a small divisor
UDiv32(x, y) ==
    IF x >= 0 THEN x \div y
    ELSE LET lo == x - INT32_MIN
             hi == INT32_MAX \div y
             r  == (lo % y) + (INT32_MAX % y) + 1
         IN  Wrap32(BAdd(BAdd(BN(lo \div y), BN(hi)), BN(r \div y)))

\* x < y of two unsigned 32-bit values
ULess32(x, y) == BCmp(U32(x), U32(y)) < 0

Abs(x) == IF x < 0 THEN 0 - x ELSE x

\* x / y and x % y of two ints as C computes them (the quotient truncated
\* toward zero, the remainder with the sign of x), for y # 0 and not
\* INT32_MIN / -1
CDiv(x, y) ==
    IF x = INT32_MIN
    THEN (IF y > 0 THEN 0 - ((INT32_MAX \div y) + (IF INT32_MAX % y = y - 1 THEN 1 ELSE 0))
          ELSE IF y = INT32_MIN THEN 1
          ELSE (INT32_MAX \div (0 - y)) + (IF INT32_MAX % (0 - y) = (0 - y) - 1 THEN 1 ELSE 0))
    ELSE IF y = INT32_MIN THEN 0
    ELSE IF (x < 0) = (y < 0) THEN Abs(x) \div Abs(y)
    ELSE 0 - (Abs(x) \div Abs(y))

CRem(x, y) == x - CDiv(x, y) * y

\* a | b on naturals
RECURSIVE BitOr(_, _)
BitOr(a, b) ==
    IF a = 0 THEN b
    ELSE IF b = 0 THEN a
    ELSE (IF a % 2 = 1 \/ b % 2 = 1 THEN 1 ELSE 0) + 2 * BitOr(a \div 2, b \div 2)

\* a & mask for a byte a and a mask of adjacent bits lo .. hi-1 given as
\* their weights: (a & (hi - lo)) for powers of two lo < hi
Field(a, lo, hi) == (a % hi) - (a % lo)

(***************************************************************************)
(* Texts: a C string is the sequence of its character codes (ASCII), the   *)
(* terminating NUL left out.  <ctype.h> in the C locale.                   *)
(***************************************************************************)
isspace(c) == c = 32 \/ (c >= 9 /\ c <= 13)

isdigit(c) == c >= 48 /\ c <= 57

isupper(c) == c >= 65 /\ c <= 90

islower(c) == c >= 97 /\ c <= 122

tolower(c) == IF isupper(c) THEN c + 32 ELSE c

\* strcasecmp(a, b) == 0
strcaseeq(a, b) ==
    /\ Len(a) = Len(b)
    /\ \A i \in 1..Len(a) : tolower(a[i]) = tolower(b[i])

\* the C string that starts a buffer: up to the first NUL
RECURSIVE CStr(_)
CStr(buf) ==
    IF buf = <<>> \/ buf[1] = 0 THEN <<>> ELSE <<buf[1]>> \o CStr(Tail(buf))

RECURSIVE SkipSpace(_)
SkipSpace(t) == IF t # <<>> /\ isspace(t[1]) THEN SkipSpace(Tail(t)) ELSE t

\* get_arg's scan of the argument (parse.c): t is the text from end on, out
\* what was written through rewrite.  Gives the argument and the text the
\* cursor is left on.
RECURSIVE GetArgScan(_, _, _, _)
GetArgScan(t, qstate, qval, out) ==
    IF t = <<>> THEN [arg |-> CStr(out), rest |-> <<>>]
    ELSE LET c == t[1]
             r == Tail(t)
             oct == IF c >= 48 /\ c <= 55 THEN BitOr(qval * 8, c - 48) ELSE qval
             hex == IF isdigit(c) THEN BitOr(qval * 16, c - 48)
                    ELSE IF isupper(c) THEN BitOr(qval * 16, c - 65 + 10)
                    ELSE IF islower(c) THEN BitOr(qval * 16, c - 97 + 10)
                    ELSE qval
         IN  CASE qstate = 0 ->
                    IF isspace(c) THEN [arg |-> CStr(out), rest |-> SkipSpace(t)]
                    ELSE IF c = 34 THEN GetArgScan(r, 1, qval, out)
                    ELSE GetArgScan(r, 0, qval, Append(out, c))
               [] qstate = 1 ->
                    IF c = 34 THEN GetArgScan(r, 0, qval, out)
                    ELSE IF c = 92 THEN GetArgScan(r, 2, qval, out)
                    ELSE GetArgScan(r, 1, qval, Append(out, c))
               [] qstate = 2 ->
                    IF c = 92 THEN GetArgScan(r, 1, qval, Append(out, 92))
                    ELSE IF c = 110 THEN GetArgScan(r, 1, qval, Append(out, 10))
                    ELSE IF c = 114 THEN GetArgScan(r, 1, qval, Append(out, 13))
                    ELSE IF c = 116 THEN GetArgScan(r, 1, qval, Append(out, 9))
                    ELSE IF c >= 48 /\ c <= 51 THEN GetArgScan(r, 30, c - 48, out)
                    ELSE IF c = 120 THEN GetArgScan(r, 40, 0, out)
                    ELSE GetArgScan(r, 1, qval, Append(out, c))
               [] qstate = 30 -> GetArgScan(r, 31, oct, out)
               [] qstate = 31 -> GetArgScan(r, 1, oct, Append(out, oct % 256))
               [] qstate = 40 -> GetArgScan(r, 41, hex, out)
               [] OTHER -> GetArgScan(r, 1, hex, Append(out, hex % 256))

\* get_arg(&text): the next argument of the text, or NULL (ok = FALSE) when
\* only white space is left, and the text the cursor is left on
get_arg(text) ==
    LET start == SkipSpace(text)
        scan  == GetArgScan(start, 0, 0, <<>>)
    IN  IF start = <<>> THEN [ok |-> FALSE, arg |-> <<>>, rest |-> text]
        ELSE [ok |-> TRUE, arg |-> scan.arg, rest |-> scan.rest]

(***************************************************************************)
(* strtod of <stdlib.h>, C locale, for the decimal forms                   *)
(*     [space] [+-] digits [. digits] [e [+-] digits] | inf | nan:         *)
(* the value, the text left after the number, and whether the value is out *)
(* of the range of double (strtod then sets errno to ERANGE; it never      *)
(* clears errno).  With no digits nothing is converted: the value is 0 and *)
(* the whole text is left.                                                 *)
(***************************************************************************)
ERANGE == 34

\* the run of digits that starts t: its value, its length, the text after
RECURSIVE Digits(_, _, _)
Digits(t, n, cnt) ==
    IF t # <<>> /\ isdigit(t[1])
    THEN Digits(Tail(t), BAdd(BMulLimb(n, 10), BN(t[1] - 48)), cnt + 1)
    ELSE [n |-> n, cnt |-> cnt, rest |-> t]

RECURSIVE SmallInt(_, _)
SmallInt(t, n) ==
    IF t # <<>> /\ isdigit(t[1])
    THEN SmallInt(Tail(t), IF n > 9999 THEN n ELSE n * 10 + (t[1] - 48))
    ELSE [n |-> n, rest |-> t]

HasPrefixCI(t, w) == Len(t) >= Len(w) /\ strcaseeq(SubSeq(t, 1, Len(w)), w)

S_inf == <<105, 110, 102>>   \* "inf"

S_infinity == <<105, 110, 102, 105, 110, 105, 116, 121>>   \* "infinity"

S_nan == <<110, 97, 110>>   \* "nan"

\* strtod from the exponent on: text is the whole text, icnt the number of
\* digits before the point, fp the digits read (all of them as one number,
\* the count of those after the point, the text after them)
strtod_exponent(text, neg, icnt, fp) ==
    LET some == icnt + fp.cnt > 0
        t2   == fp.rest
        hasE == t2 # <<>> /\ (t2[1] = 101 \/ t2[1] = 69)
        t3   == IF hasE THEN Tail(t2) ELSE t2
        eneg == t3 # <<>> /\ t3[1] = 45
        t4   == IF t3 # <<>> /\ (t3[1] = 45 \/ t3[1] = 43) THEN Tail(t3) ELSE t3
        ex   == SmallInt(t4, 0)
        useE == hasE /\ t4 # <<>> /\ isdigit(t4[1])
        e10  == (IF useE THEN (IF eneg THEN 0 - ex.n ELSE ex.n) ELSE 0) - fp.cnt
        rest == IF useE THEN ex.rest ELSE t2
        \* the decimal exponent of the leading digit
        mag  == e10 + (BBitLen(fp.n) * 3) \div 10
        val  == IF e10 >= 0
                THEN DRound(neg, BMul(fp.n, BPow(<<10>>, e10)), 0, FALSE)
                ELSE DQuot(neg, fp.n, BPow(<<10>>, 0 - e10), 0)
    IN  IF ~some THEN [val |-> DZero, rest |-> text, erange |-> FALSE]
        ELSE IF fp.n = <<>> THEN [val |-> DNum(neg, <<>>, 0), rest |-> rest, erange |-> FALSE]
        ELSE IF mag > 308 THEN [val |-> DInf(neg), rest |-> rest, erange |-> TRUE]
        ELSE IF mag < 0 - 324 THEN [val |-> DNum(neg, <<>>, 0), rest |-> rest, erange |-> TRUE]
        ELSE [val |-> val, rest |-> rest, erange |-> FALSE]

\* strtod from the point on: ip is the run of digits before it
strtod_fraction(text, neg, ip) ==
    strtod_exponent(text, neg, ip.cnt,
        IF ip.rest # <<>> /\ ip.rest[1] = 46
        THEN Digits(Tail(ip.rest), ip.n, 0)
        ELSE [n |-> ip.n, cnt |-> 0, rest |-> ip.rest])

\* strtod(text, &next): the double, the text next points to, and whether
\* errno is set to ERANGE
strtod_value(text) ==
    LET t0   == SkipSpace(text)
        neg  == t0 # <<>> /\ t0[1] = 45
        t1   == IF t0 # <<>> /\ (t0[1] = 45 \/ t0[1] = 43) THEN Tail(t0) ELSE t0
    IN  IF HasPrefixCI(t1, S_infinity)
        THEN [val |-> DInf(neg), rest |-> SubSeq(t1, 9, Len(t1)), erange |-> FALSE]
        ELSE IF HasPrefixCI(t1, S_inf)
        THEN [val |-> DInf(neg), rest |-> SubSeq(t1, 4, Len(t1)), erange |-> FALSE]
        ELSE IF HasPrefixCI(t1, S_nan)
        THEN [val |-> DNaN, rest |-> SubSeq(t1, 4, Len(t1)), erange |-> FALSE]
        ELSE strtod_fraction(text, neg, Digits(t1, <<>>, 0))

(***************************************************************************)
(* struct clock (simio_clock.c): the configuration, the derived            *)
(* frequencies, the two accumulators and the register bytes.               *)
(***************************************************************************)
CLOCK_TYPE_BASIC == "basic"

CLOCK_TYPE_BASIC_PLUS == "basic+"

\* register addresses
DCOCTL == 86

BCSCTL1 == 87

BCSCTL2 == 88

BCSCTL3 == 83

CALDCO_16MHZ == 4344

CALBC1_16MHZ == 4345

CALDCO_12MHZ == 4346

CALBC1_12MHZ == 4347

CALDCO_8MHZ == 4348

CALBC1_8MHZ == 4349

CALDCO_1MHZ == 4350

CALBC1_1MHZ == 4351

\* calc_dcoclk up to its return: the DCO frequency, as a double, for the
\* register bytes dcoctl, bcsctl1
\* the returned quotient, for the tap frequency dcoclk and the next one
modulated_dcoclk(mod, dcoclk, next_dcoclk) ==
    DDiv(DMul(DMul(DFromInt(32), dcoclk), next_dcoclk),
         DAdd(DMul(DFromInt(mod), dcoclk),
              DMul(DFromInt(32 - mod), next_dcoclk)))

\* from next_dcoclk = dcoclk * clk->sdco on
next_dcoclk(mod, dcoclk, sdco) ==
    modulated_dcoclk(mod, dcoclk, DMul(dcoclk, sdco))

dcoclk_double(clk, dcoctl, bcsctl1) ==
    LET dco    == (dcoctl % 256) \div 32
        mod    == dcoctl % 32
        basic  == clk.clock_type = CLOCK_TYPE_BASIC
        d_rsel == IF basic THEN (bcsctl1 % 8) - 4 ELSE (bcsctl1 % 16) - 7
    IN  next_dcoclk(mod,
            DMul(DMul(DFromInt(IF basic THEN clk.dco4_3_hz ELSE clk.dco7_3_hz),
                      DPow(clk.srsel, d_rsel)),
                 DPow(clk.sdco, dco - 3)),
            clk.sdco)

(***************************************************************************)
(* The calls explored: the command lines, parameters, addresses and bytes  *)
(* the simulator passes to the device.                                     *)
(***************************************************************************)
S_empty == <<>>   \* ""

S_basic == <<98, 97, 115, 105, 99>>   \* "basic"

S_basic_plus == <<98, 97, 115, 105, 99, 43>>   \* "basic+"

S_Basic_Plus_mixed == <<66, 97, 115, 105, 99, 43>>   \* "Basic+"

S_timer == <<116, 105, 109, 101, 114>>   \* "timer"

S_lfxt1 == <<108, 102, 120, 116, 49>>   \* "lfxt1"

S_xt2 == <<120, 116, 50>>   \* "xt2"

S_dco4_3 == <<100, 99, 111, 52, 95, 51>>   \* "dco4_3"

S_vlo == <<118, 108, 111>>   \* "vlo"

S_dco7_3 == <<100, 99, 111, 55, 95, 51>>   \* "dco7_3"

S_srsel == <<115, 114, 115, 101, 108>>   \* "srsel"

S_sdco == <<115, 100, 99, 111>>   \* "sdco"

S_bogus == <<98, 111, 103, 117, 115>>   \* "bogus"

S_32768 == <<51, 50, 55, 54, 56>>   \* "32768"

S_1_5 == <<49, 46, 53>>   \* "1.5"

S_1_0 == <<49, 46, 48>>   \* "1.0"

S_1_8 == <<49, 46, 56>>   \* "1.8"

S_1e999 == <<49, 101, 57, 57, 57>>   \* "1e999"

S_nan_text == <<110, 97, 110>>   \* "nan"

S_BASIC_upper == <<66, 65, 83, 73, 67>>   \* "BASIC"

CreateTexts == {S_empty, S_basic, S_BASIC_upper, S_Basic_Plus_mixed, S_timer}

ConfigCalls ==
    {<<S_lfxt1, S_32768>>, <<S_srsel, S_1_5>>, <<S_srsel, S_1_0>>,
     <<S_srsel, S_1_8>>, <<S_srsel, S_1e999>>, <<S_srsel, S_nan_text>>,
     <<S_bogus, S_1_5>>}

\* 0x23 and 0xb7
WriteData == {35, 183}

\* 0x59 is an address of no register of the device
Addrs == {DCOCTL, BCSCTL1, BCSCTL2, BCSCTL3, CALDCO_1MHZ, CALBC1_1MHZ, 89}

WriteAddrs == {DCOCTL, BCSCTL1, BCSCTL2, BCSCTL3, 89}

StepTicks == {1, 4000}

\* the double constants of the source
D_1_0 == DFromInt(1)

D_1_8 == DDec(18, 1)

D_1_65 == DDec(165, 2)

D_1_12 == DDec(112, 2)

D_1_35 == DDec(135, 2)

D_1_08 == DDec(108, 2)

\* strtod, tabulated once for the texts the calls above pass
StrtodTable == [t \in {c[2] : c \in ConfigCalls} |-> strtod_value(t)]

strtod(text) ==
    IF text \in DOMAIN StrtodTable THEN StrtodTable[text] ELSE strtod_value(text)

\* the ratios a device of these calls can hold: the defaults of clock_create
\* and the values config_ratio lets through
TabRatios == {D_1_65, D_1_35, DDec(15, 1), DNaN}

DcoKey(clk, dcoctl, bcsctl1) ==
    <<clk.clock_type, clk.dco4_3_hz, clk.dco7_3_hz, clk.srsel, clk.sdco,
      dcoctl % 256, bcsctl1 % 16>>

DcoKeys ==
    {<<f[1], f[2], f[3], sr, f[4], d, b % 16>> :
        f \in {<<CLOCK_TYPE_BASIC, 750000, 0, D_1_12>>,
               <<CLOCK_TYPE_BASIC_PLUS, 0, 1140000, D_1_08>>},
        sr \in TabRatios, d \in {0, 96} \cup WriteData,
        b \in {0, 132, 135} \cup WriteData}

\* dcoclk_double, tabulated once for the devices and register bytes of the
\* calls above
DcoTable ==
    [k \in DcoKeys |->
        dcoclk_double([clock_type |-> k[1], dco4_3_hz |-> k[2],
                       dco7_3_hz |-> k[3], srsel |-> k[4], sdco |-> k[5]],
                      k[6], k[7])]

\* calc_dcoclk: the (int32_t) of that.  ub is the build, which decides the
\* conversion where C leaves it undefined.
calc_dcoclk(clk, dcoctl, bcsctl1, ub) ==
    LET k == DcoKey(clk, dcoctl, bcsctl1)
    IN  DToInt32(IF k \in DcoKeys THEN DcoTable[k]
                 ELSE dcoclk_double(clk, dcoctl, bcsctl1), ub)

\* x >> k of an int32_t x (an arithmetic shift)
Shr32(x, k) == x \div Pow2(k)

\* update_clock_frequencies after dcoclk = calc_dcoclk(...)
\* a selection that takes the crystal for SELM = 1 as well
select_clocks_selm_bit7(clk, dcoclk) ==
    LET lfxtclk == IF /\ clk.clock_type = CLOCK_TYPE_BASIC_PLUS
                      /\ Field(clk.bcsctl3, 16, 64) = 32
                   THEN clk.vlo_hz ELSE clk.lfxt1_hz
        xt2lf   == IF clk.xt2_hz > 0 THEN clk.xt2_hz ELSE lfxtclk
        selm    == Field(clk.bcsctl2, 64, 256)
        mclk    == IF selm = 128 \/ selm = 64 THEN xt2lf
                   ELSE IF selm = 192 THEN lfxtclk
                   ELSE dcoclk
        smclk   == IF Field(clk.bcsctl2, 8, 16) # 0 THEN xt2lf ELSE dcoclk
    IN  [clk EXCEPT
           !.dco_hz   = dcoclk,
           !.mclk_hz  = Shr32(mclk, Field(clk.bcsctl2, 16, 64) \div 16),
           !.smclk_hz = Shr32(smclk, Field(clk.bcsctl2, 2, 8) \div 2),
           !.aclk_hz  = Shr32(lfxtclk, Field(clk.bcsctl1, 16, 64) \div 16)]

select_clocks(clk, dcoclk) ==
    LET lfxtclk == IF /\ clk.clock_type = CLOCK_TYPE_BASIC_PLUS
                      /\ Field(clk.bcsctl3, 16, 64) = 32
                   THEN clk.vlo_hz ELSE clk.lfxt1_hz
        xt2lf   == IF clk.xt2_hz > 0 THEN clk.xt2_hz ELSE lfxtclk
        selm    == Field(clk.bcsctl2, 64, 256)
        mclk    == IF selm = 128 THEN xt2lf
                   ELSE IF selm = 192 THEN lfxtclk
                   ELSE dcoclk
        smclk   == IF Field(clk.bcsctl2, 8, 16) # 0 THEN xt2lf ELSE dcoclk
    IN  [clk EXCEPT
           !.dco_hz   = dcoclk,
           !.mclk_hz  = Shr32(mclk, Field(clk.bcsctl2, 16, 64) \div 16),
           !.smclk_hz = Shr32(smclk, Field(clk.bcsctl2, 2, 8) \div 2),
           !.aclk_hz  = Shr32(lfxtclk, Field(clk.bcsctl1, 16, 64) \div 16)]

update_clock_frequencies(clk, ub) ==
    select_clocks(clk, calc_dcoclk(clk, clk.dcoctl, clk.bcsctl1, ub))

\* a reset that leaves BCSCTL2 as it is
clock_reset_keep_bcsctl2(clk, ub) ==
    update_clock_frequencies(
        [clk EXCEPT !.aclk_counter = 0, !.smclk_counter = 0, !.dcoctl = 96,
                    !.bcsctl1 = IF clk.clock_type = CLOCK_TYPE_BASIC THEN 132 ELSE 135,
                    !.bcsctl3 = IF clk.clock_type = CLOCK_TYPE_BASIC_PLUS THEN 3 ELSE @],
        ub)

clock_reset(clk, ub) ==
    LET c1 == [clk EXCEPT !.aclk_counter = 0, !.smclk_counter = 0,
                          !.dcoctl = 96, !.bcsctl2 = 0]
        c2 == IF clk.clock_type = CLOCK_TYPE_BASIC
              THEN [c1 EXCEPT !.bcsctl1 = 132] ELSE c1
        c3 == IF clk.clock_type = CLOCK_TYPE_BASIC_PLUS
              THEN [c2 EXCEPT !.bcsctl1 = 135, !.bcsctl3 = 3] ELSE c2
    IN  update_clock_frequencies(c3, ub)

\* no device: what create returns on failure
NoDev == [clock_type |-> "none"]

\* the struct after memset(clk, 0, sizeof(*clk))
ZeroClock ==
    [clock_type |-> CLOCK_TYPE_BASIC,
     lfxt1_hz |-> 0, xt2_hz |-> 0, vlo_hz |-> 0, dco4_3_hz |-> 0, dco7_3_hz |-> 0,
     srsel |-> DZero, sdco |-> DZero,
     dco_hz |-> 0, mclk_hz |-> 0, smclk_hz |-> 0, aclk_hz |-> 0,
     aclk_counter |-> 0, smclk_counter |-> 0,
     dcoctl |-> 0, bcsctl1 |-> 0, bcsctl2 |-> 0, bcsctl3 |-> 0]

\* a create that compares the token with strcmp
clock_create_exact_case(arg_text, mem) ==
    LET type_text == get_arg(arg_text)
    IN  IF ~type_text.ok THEN NoDev
        ELSE IF ~(type_text.arg = S_basic \/ type_text.arg = S_basic_plus) THEN NoDev
        ELSE IF ~mem THEN NoDev
        ELSE IF type_text.arg = S_basic
        THEN [ZeroClock EXCEPT !.clock_type = CLOCK_TYPE_BASIC,
                               !.dco4_3_hz = 750000,
                               !.srsel = D_1_65, !.sdco = D_1_12]
        ELSE [ZeroClock EXCEPT !.clock_type = CLOCK_TYPE_BASIC_PLUS,
                               !.vlo_hz = 12000, !.dco7_3_hz = 1140000,
                               !.srsel = D_1_35, !.sdco = D_1_08]

\* clock_create(&arg_text); mem: whether malloc gives memory
clock_create(arg_text, mem) ==
    LET type_text == get_arg(arg_text)
    IN  IF ~type_text.ok THEN NoDev
        ELSE IF ~(strcaseeq(type_text.arg, S_basic) \/ strcaseeq(type_text.arg, S_basic_plus))
        THEN NoDev
        ELSE IF ~mem THEN NoDev
        ELSE IF strcaseeq(type_text.arg, S_basic)
        THEN [ZeroClock EXCEPT !.clock_type = CLOCK_TYPE_BASIC,
                               !.dco4_3_hz = 750000,
                               !.srsel = D_1_65, !.sdco = D_1_12]
        ELSE [ZeroClock EXCEPT !.clock_type = CLOCK_TYPE_BASIC_PLUS,
                               !.vlo_hz = 12000, !.dco7_3_hz = 1140000,
                               !.srsel = D_1_35, !.sdco = D_1_08]

RECURSIVE multiply_power_of_10(_, _)
multiply_power_of_10(val, pow) ==
    IF pow > 0 THEN multiply_power_of_10(Mul32(val, 10), pow - 1)
    ELSE IF pow < 0 THEN multiply_power_of_10(UDiv32(val, 10), pow + 1)
    ELSE val

\* the loop of config_frequency over the digits and the one point
RECURSIVE FreqScan(_, _, _)
FreqScan(p, freq, frac) ==
    IF p # <<>> /\ isdigit(p[1])
    THEN FreqScan(Tail(p), Add32(Mul32(freq, 10), p[1] - 48),
                  IF frac >= 0 THEN frac + 1 ELSE frac)
    ELSE IF p # <<>> /\ p[1] = 46 /\ frac < 0
    THEN FreqScan(Tail(p), freq, 0)
    ELSE [p |-> p, freq |-> freq, frac |-> frac]

S_Hz == <<72, 122>>   \* "Hz"

S_kHz == <<107, 72, 122>>   \* "kHz"

S_MHz == <<77, 72, 122>>   \* "MHz"

\* config_frequency(clk, &clk->field, &arg_text): the return value and the
\* device after the call
config_frequency(clk, field, arg_text, ub) ==
    LET freq_text == get_arg(arg_text)
        sc   == FreqScan(freq_text.arg, 0, 0 - 1)
        frac == IF sc.frac < 0 THEN 0 ELSE sc.frac
        unit == IF sc.p = <<>> \/ strcaseeq(sc.p, S_Hz) THEN 0
                ELSE IF strcaseeq(sc.p, S_kHz) THEN 3
                ELSE IF strcaseeq(sc.p, S_MHz) THEN 6
                ELSE 0 - 1
        freq == multiply_power_of_10(sc.freq, unit - frac)
    IN  IF ~freq_text.ok THEN [ret |-> 0 - 1, clk |-> clk]
        ELSE IF unit < 0 THEN [ret |-> 0 - 1, clk |-> clk]
        ELSE [ret |-> 0,
              clk |-> update_clock_frequencies([clk EXCEPT ![field] = freq], ub)]

\* config_ratio after value = strtod(double_text, &next), which gave sd.
\* errno is read as strtod and every earlier library call left it: nothing
\* clears it.
config_ratio_value(clk, field, sd, errno0, ub) ==
    LET errno1 == IF sd.erange THEN ERANGE ELSE errno0
    IN  IF sd.rest # <<>> \/ errno1 = ERANGE
        THEN [ret |-> 0 - 1, clk |-> clk, errno |-> errno1]
        ELSE IF DLessEq(sd.val, D_1_0)
        THEN [ret |-> 0 - 1, clk |-> clk, errno |-> errno1]
        ELSE IF DLessEq(D_1_8, sd.val)
        THEN [ret |-> 0 - 1, clk |-> clk, errno |-> errno1]
        ELSE [ret |-> 0,
              clk |-> update_clock_frequencies([clk EXCEPT ![field] = sd.val], ub),
              errno |-> errno1]

\* config_ratio(clk, &clk->field, &arg_text): the return value, the device
\* and errno after the call
config_ratio(clk, field, arg_text, errno0, ub) ==
    LET double_text == get_arg(arg_text)
    IN  IF ~double_text.ok THEN [ret |-> 0 - 1, clk |-> clk, errno |-> errno0]
        ELSE config_ratio_value(clk, field, strtod(double_text.arg), errno0, ub)

WithErrno(r, errno0) == [ret |-> r.ret, clk |-> r.clk, errno |-> errno0]

\* a config that takes dco4_3 on either family
clock_config_any_family(clk, param, arg_text, errno0, ub) ==
    LET hz == IF strcaseeq(param, S_lfxt1) THEN "lfxt1_hz"
              ELSE IF strcaseeq(param, S_xt2) THEN "xt2_hz"
              ELSE IF strcaseeq(param, S_dco4_3) THEN "dco4_3_hz"
              ELSE IF clk.clock_type = CLOCK_TYPE_BASIC_PLUS /\ strcaseeq(param, S_vlo)
              THEN "vlo_hz"
              ELSE IF clk.clock_type = CLOCK_TYPE_BASIC_PLUS /\ strcaseeq(param, S_dco7_3)
              THEN "dco7_3_hz"
              ELSE ""
        ratio == IF strcaseeq(param, S_srsel) THEN "srsel"
                 ELSE IF strcaseeq(param, S_sdco) THEN "sdco"
                 ELSE ""
    IN  IF hz # ""
        THEN WithErrno(config_frequency(clk, hz, arg_text, ub), errno0)
        ELSE IF ratio # ""
        THEN config_ratio(clk, ratio, arg_text, errno0, ub)
        ELSE [ret |-> 0 - 1, clk |-> clk, errno |-> errno0]

\* clock_config(dev, param, &arg_text): the chain of strcasecmp tests picks
\* the field (hz for config_frequency, ratio for config_ratio; "" when the
\* test fails), in the order of the source
clock_config(clk, param, arg_text, errno0, ub) ==
    LET hz == IF strcaseeq(param, S_lfxt1) THEN "lfxt1_hz"
              ELSE IF strcaseeq(param, S_xt2) THEN "xt2_hz"
              ELSE IF clk.clock_type = CLOCK_TYPE_BASIC /\ strcaseeq(param, S_dco4_3)
              THEN "dco4_3_hz"
              ELSE IF clk.clock_type = CLOCK_TYPE_BASIC_PLUS /\ strcaseeq(param, S_vlo)
              THEN "vlo_hz"
              ELSE IF clk.clock_type = CLOCK_TYPE_BASIC_PLUS /\ strcaseeq(param, S_dco7_3)
              THEN "dco7_3_hz"
              ELSE ""
        ratio == IF strcaseeq(param, S_srsel) THEN "srsel"
                 ELSE IF strcaseeq(param, S_sdco) THEN "sdco"
                 ELSE ""
    IN  IF hz # ""
        THEN WithErrno(config_frequency(clk, hz, arg_text, ub), errno0)
        ELSE IF ratio # ""
        THEN config_ratio(clk, ratio, arg_text, errno0, ub)
        ELSE [ret |-> 0 - 1, clk |-> clk, errno |-> errno0]

\* check_crystal: whether it prints its diagnostic (unsigned comparisons)
check_crystal(hz, low, high) == ULess32(hz, low) \/ ULess32(high, hz)

\* bcsctl3_write(clk, data): the diagnostics it prints, in order.  It
\* changes nothing in the device.
bcsctl3_write(clk, data) ==
    LET xt2s   == Field(data, 64, 256)
        lfxt1s == Field(data, 16, 64)
        rng(c, name) == IF c THEN <<name>> ELSE <<>>
        xt2    == CASE xt2s = 0   -> rng(check_crystal(clk.xt2_hz, 400000, 1000000), "XT2 range")
                    [] xt2s = 64  -> rng(check_crystal(clk.xt2_hz, 1000000, 4000000), "XT2 range")
                    [] xt2s = 128 -> rng(check_crystal(clk.xt2_hz, 2000000, 16000000), "XT2 range")
                    [] OTHER      -> <<"XT2S: Digital input not supported">>
        hf     == CASE lfxt1s = 0  -> rng(check_crystal(clk.lfxt1_hz, 400000, 1000000), "LFXT1 range")
                    [] lfxt1s = 16 -> rng(check_crystal(clk.lfxt1_hz, 1000000, 3000000), "LFXT1 range")
                    [] lfxt1s = 32 -> rng(check_crystal(clk.lfxt1_hz, 3000000, 16000000), "LFXT1 range")
                    [] OTHER       -> <<"LFXT1S: Digital input not supported">>
        lf     == CASE lfxt1s = 16 -> <<"LFXT1S: Reserved mode", "LFXT1S: Fallback to mode 0">>
                    [] lfxt1s = 32 -> IF clk.vlo_hz > 0 THEN <<>>
                                      ELSE <<"LFXT1S: VLO mode without VLO set">>
                    [] lfxt1s = 48 -> <<"LFXT1S: Digital input mode", "LFXT1S: Fallback to mode 0">>
                    [] OTHER       -> <<>>
    IN  xt2 \o (IF Field(clk.bcsctl2, 64, 128) # 0 THEN hf ELSE lf)

\* a write that takes BCSCTL3 on either family
clock_write_b_any_family(clk, addr, data, ub) ==
    IF addr \in {BCSCTL3, DCOCTL, BCSCTL1, BCSCTL2}
    THEN [ret |-> 0,
          clk |-> update_clock_frequencies(
                     [clk EXCEPT !.dcoctl = IF addr = DCOCTL THEN data ELSE @,
                                 !.bcsctl1 = IF addr = BCSCTL1 THEN data ELSE @,
                                 !.bcsctl2 = IF addr = BCSCTL2 THEN data ELSE @,
                                 !.bcsctl3 = IF addr = BCSCTL3 THEN data ELSE @], ub),
          msgs |-> <<>>]
    ELSE [ret |-> 1, clk |-> clk, msgs |-> <<>>]

\* clock_write_b(dev, addr, data): the return value (0 handled, 1 not this
\* device's address), the device after the call, the diagnostics printed
\* Each case of the switch that returns 0 stores what it stores and ends
\* with update_clock_frequencies; the BCSCTL3 case, for Basic+ only, stores
\* nothing: it calls bcsctl3_write, which prints.
clock_write_b(clk, addr, data, ub) ==
    IF \/ addr = BCSCTL3 /\ clk.clock_type = CLOCK_TYPE_BASIC_PLUS
       \/ addr \in {DCOCTL, BCSCTL1, BCSCTL2}
    THEN [ret |-> 0,
          clk |-> update_clock_frequencies(
                     [clk EXCEPT !.dcoctl = IF addr = DCOCTL THEN data ELSE @,
                                 !.bcsctl1 = IF addr = BCSCTL1 THEN data ELSE @,
                                 !.bcsctl2 = IF addr = BCSCTL2 THEN data ELSE @], ub),
          msgs |-> IF addr = BCSCTL3 THEN bcsctl3_write(clk, data) ELSE <<>>]
    ELSE [ret |-> 1, clk |-> clk, msgs |-> <<>>]

\* a search that starts at bit 7 of an 8-bit word
CalInit_8bit(clk) ==
    [cal |-> 128, bit |-> 128, min_delta |-> INT32_MAX, best_cal |-> 128,
     evals |-> <<>>]

\* calc_calibrate_dco before its loop: cal, bit, min_delta and best_cal as
\* declared; evals collects the words the loop evaluates, each with the
\* frequency calc_dcoclk gave for it
CalInit(clk) ==
    LET rsel_max == IF clk.clock_type = CLOCK_TYPE_BASIC THEN 4 ELSE 8
        cal      == rsel_max * 256
    IN  [cal |-> cal, bit |-> cal, min_delta |-> INT32_MAX, best_cal |-> cal,
         evals |-> <<>>]

\* a pass that keeps the word it evaluated last as the best one
CalStep_last(clk, target_dco, st, ub) ==
    LET f     == calc_dcoclk(clk, st.cal % 256, (st.cal \div 256) % 256, ub)
        delta == Add32(f, 0 - target_dco)
        cal1  == IF delta > 0 /\ (st.cal \div st.bit) % 2 = 1
                 THEN st.cal - st.bit ELSE st.cal
        bit1  == st.bit \div 2
        cal2  == IF bit1 # 0 /\ (cal1 \div bit1) % 2 = 1 THEN cal1 ELSE cal1 + bit1
    IN  [cal |-> cal2, bit |-> bit1, min_delta |-> st.min_delta,
         best_cal |-> st.cal,
         evals |-> Append(st.evals, [cal |-> st.cal, f |-> f])]

\* one pass of the body of the loop, given f, what calc_dcoclk returned for
\* the word.  abs(delta) for delta = INT32_MIN is undefined in C; the
\* library's abs returns INT32_MIN there.
CalCompare(target_dco, st, f) ==
    LET delta == Add32(f, 0 - target_dco)
        ad    == IF delta = INT32_MIN THEN delta ELSE Abs(delta)
        less  == ad < st.min_delta
        cal1  == IF delta > 0 /\ (st.cal \div st.bit) % 2 = 1
                 THEN st.cal - st.bit ELSE st.cal
        bit1  == st.bit \div 2
        cal2  == IF bit1 # 0 /\ (cal1 \div bit1) % 2 = 1 THEN cal1 ELSE cal1 + bit1
    IN  [cal |-> cal2, bit |-> bit1,
         min_delta |-> IF less THEN ad ELSE st.min_delta,
         best_cal  |-> IF less THEN st.cal ELSE st.best_cal,
         evals |-> Append(st.evals, [cal |-> st.cal, f |-> f])]

\* one pass of the body of the loop
CalStep(clk, target_dco, st, ub) ==
    CalCompare(target_dco, st,
               calc_dcoclk(clk, st.cal % 256, (st.cal \div 256) % 256, ub))

\* the loop: while (bit != 0)
RECURSIVE CalLoop(_, _, _, _)
CalLoop(clk, target_dco, st, ub) ==
    IF st.bit = 0 THEN st
    ELSE CalLoop(clk, target_dco, CalStep(clk, target_dco, st, ub), ub)

\* calc_calibrate_dco up to its return: the best word and the words evaluated
CalSearch(clk, target_dco, ub) == CalLoop(clk, target_dco, CalInit(clk), ub)

CalKey(clk, target_dco, ub) ==
    <<clk.clock_type, clk.dco4_3_hz, clk.dco7_3_hz, clk.srsel, clk.sdco,
      target_dco, ub>>

CalKeys ==
    {<<CLOCK_TYPE_BASIC_PLUS, 0, 1140000, sr, D_1_08, 1000000, ub>> :
        sr \in TabRatios, ub \in Builds}

\* the search, tabulated once for the devices and calibration addresses of
\* the calls above
CalTable ==
    [k \in CalKeys |->
        CalSearch([clock_type |-> k[1], dco4_3_hz |-> k[2], dco7_3_hz |-> k[3],
                   srsel |-> k[4], sdco |-> k[5]], k[6], k[7])]

\* the return statement of calc_calibrate_dco, a uint8_t
CalResult(addr, best_cal) ==
    IF addr % 2 = 0 THEN best_cal % 256 ELSE (best_cal \div 256) % 256

calc_calibrate_dco(clk, addr, target_dco, ub) ==
    LET k        == CalKey(clk, target_dco, ub)
        best_cal == IF k \in CalKeys THEN CalTable[k].best_cal
                    ELSE CalSearch(clk, target_dco, ub).best_cal
    IN  CalResult(addr, best_cal)

\* the target clock_read_b passes for a calibration address
CalTarget(addr) ==
    IF addr \in {CALDCO_16MHZ, CALBC1_16MHZ} THEN 16000000
    ELSE IF addr \in {CALDCO_12MHZ, CALBC1_12MHZ} THEN 12000000
    ELSE IF addr \in {CALDCO_8MHZ, CALBC1_8MHZ} THEN 8000000
    ELSE 1000000

CalAddrs ==
    {CALDCO_16MHZ, CALBC1_16MHZ, CALDCO_12MHZ, CALBC1_12MHZ,
     CALDCO_8MHZ, CALBC1_8MHZ, CALDCO_1MHZ, CALBC1_1MHZ}

\* what a read leaves in *data when it does not write it
NoData == 0 - 1

\* clock_read_b(dev, addr, &data): the return value and *data
clock_read_b(clk, addr, ub) ==
    IF addr = DCOCTL THEN [ret |-> 0, data |-> clk.dcoctl]
    ELSE IF addr = BCSCTL1 THEN [ret |-> 0, data |-> clk.bcsctl1]
    ELSE IF addr = BCSCTL2 THEN [ret |-> 0, data |-> clk.bcsctl2]
    ELSE IF clk.clock_type # CLOCK_TYPE_BASIC_PLUS THEN [ret |-> 1, data |-> NoData]
    ELSE IF addr = BCSCTL3 THEN [ret |-> 0, data |-> clk.bcsctl3]
    ELSE IF addr \in CalAddrs
    THEN [ret |-> 0, data |-> calc_calibrate_dco(clk, addr, CalTarget(addr), ub)]
    ELSE [ret |-> 1, data |-> NoData]

\* x / y and x % y are undefined in C for these ints
DivUndefined(x, y) == y = 0 \/ (x = INT32_MIN /\ y = 0 - 1)

\* an undefined division: the x86 instruction traps (SIGFPE); the ARM one
\* gives the quotient 0 for y = 0 and INT32_MIN for INT32_MIN / -1, and the
\* remainder computed from it is x - (x / y) * y
UDiv(x, y) == IF y = 0 THEN 0 ELSE IF DivUndefined(x, y) THEN INT32_MIN ELSE CDiv(x, y)

URem(x, y) == IF y = 0 THEN x ELSE IF DivUndefined(x, y) THEN 0 ELSE CRem(x, y)

\* clock_step(dev, status, clocks): whether a division trapped, the device
\* and the clocks record after the call.  The product and the sums wrap to
\* 32 bits.  The additions are stored before the first division.
clock_step(clk, clocks, ub) ==
    LET duration == Mul32(clocks.mclk, clk.mclk_hz)
        a == Add32(clk.aclk_counter, duration)
        s == Add32(clk.smclk_counter, duration)
        added == [clk EXCEPT !.aclk_counter = a, !.smclk_counter = s]
    IN  IF ub = "x86" /\ (DivUndefined(a, clk.aclk_hz) \/ DivUndefined(s, clk.smclk_hz))
        THEN [fpe |-> TRUE, clk |-> added, clocks |-> clocks]
        ELSE [fpe |-> FALSE,
              clk |-> [clk EXCEPT !.aclk_counter = URem(a, clk.aclk_hz),
                                  !.smclk_counter = URem(s, clk.smclk_hz)],
              clocks |-> [clocks EXCEPT !.aclk = UDiv(a, clk.aclk_hz),
                                        !.smclk = UDiv(s, clk.smclk_hz)]]

(***************************************************************************)
(* The device in use: one clock peripheral, created from a command line,   *)
(* then configured, reset, read, written and stepped by the simulator.     *)
(***************************************************************************)
VARIABLES
    dev,      \* the struct clock the simulator holds, NoDev while it has none
    errno,    \* the C library's errno
    status,   \* "nodev", "created" (not reset yet), "reset", "sigfpe" (killed)
    last,     \* the last call: its arguments and what it returned
    nops,     \* calls made so far
    search,   \* the calibration search in progress, when followed pass by pass
    obs,      \* what an observer of the run keeps: NoObs unless a run says so
    arch      \* the build this run is of

vars == <<dev, errno, status, last, nops, search, obs, arch>>

\* the length of the call sequences explored
MaxOps == 5

NoClocks == [mclk |-> 0, smclk |-> 0, aclk |-> 0]

NoSearch == [phase |-> "none"]

NoObs == [phase |-> "none"]

NoCall ==
    [op |-> "none", addr |-> 0, data |-> 0, key |-> <<>>, text |-> <<>>,
     mem |-> TRUE, ret |-> 0, out |-> NoData, clocks |-> NoClocks,
     slots |-> NoClocks, msgs |-> <<>>]

Init ==
    /\ dev = NoDev
    /\ errno = 0
    /\ status = "nodev"
    /\ last = NoCall
    /\ nops = 0
    /\ search = NoSearch
    /\ obs = NoObs
    /\ arch \in Builds

Create ==
    /\ status = "nodev"
    /\ nops < MaxOps
    /\ \E t \in CreateTexts, mem \in BOOLEAN :
          \E d \in {clock_create(t, mem)} :
              /\ dev' = d
              /\ status' = IF d = NoDev THEN "nodev" ELSE "created"
              /\ last' = [NoCall EXCEPT !.op = "create", !.text = t, !.mem = mem,
                                        !.ret = IF d = NoDev THEN 0 - 1 ELSE 0]
    /\ nops' = nops + 1
    /\ UNCHANGED <<errno, search, obs, arch>>

Reset ==
    /\ status \in {"created", "reset"}
    /\ nops < MaxOps
    /\ dev' = clock_reset(dev, arch)
    /\ status' = "reset"
    /\ last' = [NoCall EXCEPT !.op = "reset"]
    /\ nops' = nops + 1
    /\ UNCHANGED <<errno, search, obs, arch>>

Config ==
    /\ status \in {"created", "reset"}
    /\ nops < MaxOps
    /\ \E c \in ConfigCalls :
          \E r \in {clock_config(dev, c[1], c[2], errno, arch)} :
              /\ dev' = r.clk
              /\ errno' = r.errno
              /\ last' = [NoCall EXCEPT !.op = "config", !.key = c[1],
                                        !.text = c[2], !.ret = r.ret]
    /\ nops' = nops + 1
    /\ UNCHANGED <<status, search, obs, arch>>

Write ==
    /\ status \in {"created", "reset"}
    /\ nops < MaxOps
    /\ \E addr \in WriteAddrs, data \in WriteData :
          \E r \in {clock_write_b(dev, addr, data, arch)} :
              /\ dev' = r.clk
              /\ last' = [NoCall EXCEPT !.op = "write", !.addr = addr,
                                        !.data = data, !.ret = r.ret,
                                        !.msgs = r.msgs]
    /\ nops' = nops + 1
    /\ UNCHANGED <<errno, status, search, obs, arch>>

Read ==
    /\ status \in {"created", "reset"}
    /\ nops < MaxOps
    /\ \E addr \in Addrs :
          \E r \in {clock_read_b(dev, addr, arch)} :
              last' = [NoCall EXCEPT !.op = "read", !.addr = addr,
                                     !.ret = r.ret, !.out = r.data]
    /\ nops' = nops + 1
    /\ UNCHANGED <<dev, errno, status, search, obs, arch>>

Step ==
    /\ status \in {"created", "reset"}
    /\ nops < MaxOps
    /\ \E n \in StepTicks :
          \E r \in {clock_step(dev, [NoClocks EXCEPT !.mclk = n], arch)} :
              /\ dev' = r.clk
              /\ status' = IF r.fpe THEN "sigfpe" ELSE status
              /\ last' = [NoCall EXCEPT !.op = "step",
                                        !.clocks = [NoClocks EXCEPT !.mclk = n],
                                        !.slots = r.clocks]
    /\ nops' = nops + 1
    /\ UNCHANGED <<errno, search, obs, arch>>

Next == Create \/ Reset \/ Config \/ Write \/ Read \/ Step

Spec == Init /\ [][Next]_vars
(***************************************************************************)
(* calc_calibrate_dco followed pass by pass: a read of a calibration       *)
(* address starts the search, each pass of the loop is a step, and the     *)
(* return statement ends it.                                               *)
(***************************************************************************)
\* the devices searched: each family as created and reset, with the range
\* step left at its default or configured; clock_read_b runs the search for
\* Basic+ only, the function itself has a case for either family
CalDevices(ub) ==
    {clock_reset([clock_create(t, TRUE) EXCEPT !.srsel = sr], ub) :
        t \in {S_basic, S_basic_plus},
        sr \in {D_1_65, D_1_35, StrtodTable[S_1_5].val, DNaN}}

InitCal ==
    /\ arch \in Builds
    /\ dev \in CalDevices(arch)
    /\ errno = 0
    /\ status = "reset"
    /\ last = NoCall
    /\ nops = 0
    /\ search = NoSearch
    /\ obs = NoObs

CalBegin ==
    /\ search.phase = "none"
    /\ \E addr \in CalAddrs :
          search' = [phase |-> "loop", addr |-> addr, target |-> CalTarget(addr),
                     passes |-> 0, st |-> CalInit(dev), ret |-> NoData]
    /\ UNCHANGED <<dev, errno, status, last, nops, obs, arch>>

CalPass ==
    /\ search.phase = "loop"
    /\ search.st.bit # 0
    /\ search' = [search EXCEPT !.passes = @ + 1,
                                !.st = CalStep(dev, search.target, search.st, arch)]
    /\ UNCHANGED <<dev, errno, status, last, nops, obs, arch>>

CalReturn ==
    /\ search.phase = "loop"
    /\ search.st.bit = 0
    /\ search' = [search EXCEPT !.phase = "done",
                                !.ret = CalResult(search.addr, search.st.best_cal)]
    /\ UNCHANGED <<dev, errno, status, last, nops, obs, arch>>

NextCal == CalBegin \/ CalPass \/ CalReturn

SpecCal == InitCal /\ [][NextCal]_vars
(***************************************************************************)
(* The properties.                                                         *)
(***************************************************************************)
Alive == status \in {"created", "reset"}

\* the registers a family stores, and the addresses a family answers
StoredAddrs(clock_type) ==
    {DCOCTL, BCSCTL1, BCSCTL2} \cup
    (IF clock_type = CLOCK_TYPE_BASIC_PLUS THEN {BCSCTL3} ELSE {})

MappedAddrs(clock_type) ==
    StoredAddrs(clock_type) \cup
    (IF clock_type = CLOCK_TYPE_BASIC_PLUS THEN CalAddrs ELSE {})

\* the derived frequencies are what update_clock_frequencies gives now
Fresh(clk) == clk = update_clock_frequencies(clk, arch)

\* C1: a write to a stored register of the family is handled, and a read
\* of the same address right after it is handled and gives the byte written
C1_RoundTrip ==
    [][(/\ last.op = "write"
        /\ last.addr \in StoredAddrs(dev.clock_type)
        /\ last'.op = "read"
        /\ nops' # nops
        /\ last'.addr = last.addr)
       => (last.ret = 0 /\ last'.ret = 0 /\ last'.out = last.data)]_vars

\* C2: while the device exists, the four derived frequencies equal their
\* recomputation from the configuration and the register bytes, from
\* create on
C2_DerivedFresh == Alive => Fresh(dev)

\* C3: once reset, each accumulator is at least 0 and below the current
\* frequency of its domain
C3_AccumulatorsInRange ==
    status = "reset" =>
        /\ 0 <= dev.smclk_counter /\ dev.smclk_counter < dev.smclk_hz
        /\ 0 <= dev.aclk_counter /\ dev.aclk_counter < dev.aclk_hz

\* C4: right after reset the registers hold the family's power-on bytes,
\* both accumulators are zero and the derived frequencies are recomputed
C4_ResetDefaults ==
    last.op = "reset" =>
        /\ dev.dcoctl = 96
        /\ dev.bcsctl2 = 0
        /\ dev.clock_type = CLOCK_TYPE_BASIC => dev.bcsctl1 = 132
        /\ dev.clock_type = CLOCK_TYPE_BASIC_PLUS =>
              (dev.bcsctl1 = 135 /\ dev.bcsctl3 = 3)
        /\ dev.aclk_counter = 0
        /\ dev.smclk_counter = 0
        /\ Fresh(dev)

C4_Witness ==
    /\ last.op = "reset"
    /\ nops >= 3
    /\ dev.clock_type = CLOCK_TYPE_BASIC_PLUS
    /\ dev.lfxt1_hz = 32768

\* C5: a read or write at an address the family does not answer returns
\* nonzero, and a read or write that returns nonzero changes no field of
\* the device
C5_AddressMiss ==
    [][(last'.op \in {"read", "write"} /\ nops' # nops)
       => /\ last'.addr \notin MappedAddrs(dev.clock_type) => last'.ret # 0
          /\ last'.ret # 0 => dev' = dev]_vars

C5_Witness ==
    /\ last.op = "write"
    /\ last.addr = BCSCTL3
    /\ last.ret # 0
    /\ dev.clock_type = CLOCK_TYPE_BASIC

\* the family a token names, letter case aside
TokenFamily(t) ==
    LET lower == [i \in DOMAIN t |-> tolower(t[i])]
    IN  IF lower = S_basic THEN CLOCK_TYPE_BASIC
        ELSE IF lower = S_basic_plus THEN CLOCK_TYPE_BASIC_PLUS
        ELSE "none"

\* C6 as stated: create gives a device exactly when the token names a
\* family, and the device is of that family
C6_CreateByTokenOnly ==
    last.op = "create" =>
        /\ (dev # NoDev) <=> (TokenFamily(last.text) # "none")
        /\ dev # NoDev => dev.clock_type = TokenFamily(last.text)

\* C6: create gives a device exactly when the token names a family and
\* malloc gives memory; the device is of the family named, and in every
\* other case create returns no device
C6_CreateByTokenAndMemory ==
    last.op = "create" =>
        /\ (dev # NoDev) <=> (TokenFamily(last.text) # "none" /\ last.mem)
        /\ dev # NoDev => dev.clock_type = TokenFamily(last.text)
        /\ (last.ret = 0) <=> (dev # NoDev)

C6_Witness ==
    /\ last.op = "create"
    /\ last.text = S_Basic_Plus_mixed
    /\ dev # NoDev
    /\ dev.clock_type = CLOCK_TYPE_BASIC_PLUS

\* q = floor(x / f) and m = x mod f for x = r + n * main_hz, all at least 0
ExactDivision(r, n, main_hz, f, q, m) ==
    /\ f > 0
    /\ q >= 0
    /\ 0 <= m /\ m < f
    /\ BAdd(BMul(BN(q), BN(f)), BN(m)) = BAdd(BN(r), BMul(BN(n), BN(main_hz)))

\* C7: a step of n main ticks writes floor((r + n * main_hz) / f) to the
\* slot of each of the two domains, leaves (r + n * main_hz) mod f in its
\* accumulator, and leaves the main slot as passed
C7_StepArithmetic ==
    [][(/\ last'.op = "step"
        /\ nops' # nops
        /\ dev.mclk_hz >= 0 /\ dev.smclk_counter >= 0 /\ dev.aclk_counter >= 0)
       => /\ status' # "sigfpe"
          /\ ExactDivision(dev.smclk_counter, last'.clocks.mclk, dev.mclk_hz,
                           dev.smclk_hz, last'.slots.smclk, dev'.smclk_counter)
          /\ ExactDivision(dev.aclk_counter, last'.clocks.mclk, dev.mclk_hz,
                           dev.aclk_hz, last'.slots.aclk, dev'.aclk_counter)
          /\ last'.slots.mclk = last'.clocks.mclk]_vars

SearchDone == search.phase = "done"

\* C8 as stated: the search ends after exactly 8 evaluations, over words of
\* 8 bits
C8_EightPasses ==
    SearchDone =>
        /\ search.passes = 8
        /\ Len(search.st.evals) = 8
        /\ \A i \in DOMAIN search.st.evals : search.st.evals[i].cal < 256

\* C8: the search ends after exactly 12 evaluations for a Basic+ device and
\* 11 for a Basic one, over words of 12 and 11 bits: the range field above
\* the 8 bits of the tap and modulation fields
C8_PassesByFamily ==
    LET bits == IF dev.clock_type = CLOCK_TYPE_BASIC THEN 11 ELSE 12
    IN  /\ search.phase # "none" => search.passes <= bits
        /\ SearchDone =>
              /\ search.passes = bits
              /\ Len(search.st.evals) = bits
              /\ \A i \in DOMAIN search.st.evals :
                    search.st.evals[i].cal < Pow2(bits)

C8_Witness ==
    /\ SearchDone
    /\ dev.clock_type = CLOCK_TYPE_BASIC_PLUS
    /\ search.passes = 12
    /\ search.target = 16000000

\* |f - target| as a natural number
Dist(f, target) ==
    LET off(x) == IF x >= 0 THEN BAdd(BN(x), <<0, 0, 2>>) ELSE BN(x - INT32_MIN)
    IN  IF f >= target THEN BSub(off(f), off(target)) ELSE BSub(off(target), off(f))

\* C9: the word the search returns is one it evaluated, and no word it
\* evaluated is nearer the target; the byte read is the low byte of that
\* word at an even calibration address and its high byte at an odd one
C9_BestOfEvaluated ==
    SearchDone =>
        LET evals == search.st.evals
            best  == search.st.best_cal
        IN  /\ \E i \in DOMAIN evals :
                  /\ evals[i].cal = best
                  /\ \A j \in DOMAIN evals :
                        BCmp(Dist(evals[i].f, search.target),
                             Dist(evals[j].f, search.target)) <= 0
            /\ search.ret = IF search.addr % 2 = 0 THEN best % 256
                            ELSE (best \div 256) % 256

C9_Witness ==
    /\ SearchDone
    /\ search.addr = CALBC1_8MHZ
    /\ search.st.best_cal # search.st.evals[Len(search.st.evals)].cal
    /\ search.ret = (search.st.best_cal \div 256) % 256

\* a ratio inside the open interval (1.0, 1.8)
InOpenInterval(x) == x.k = "num" /\ DLess(D_1_0, x) /\ DLess(x, D_1_8)

\* the ratio texts of the calls above that name a value inside the interval
TextsInInterval == {S_1_5}

\* C10: config of srsel or sdco succeeds exactly when the value is inside
\* (1.0, 1.8); when it fails the device is unchanged; the stored ratios are
\* inside the interval
C10_RatioBounds ==
    [][(/\ last'.op = "config"
        /\ nops' # nops
        /\ last'.key \in {S_srsel, S_sdco})
       => /\ (last'.ret = 0) <=> (last'.text \in TextsInInterval)
          /\ last'.ret # 0 => dev' = dev
          /\ InOpenInterval(dev'.srsel)
          /\ InOpenInterval(dev'.sdco)]_vars

\* some oscillator of the device is configured with a nonzero frequency
Configured(clk) ==
    \/ clk.lfxt1_hz # 0
    \/ clk.xt2_hz # 0
    \/ clk.vlo_hz # 0
    \/ clk.dco4_3_hz # 0
    \/ clk.dco7_3_hz # 0

\* C11: on a device that has been reset and has at least one oscillator
\* configured nonzero, the main, sub-main and auxiliary frequencies are
\* never zero, whatever writes and configs follow, so that step has no
\* zero divisor
C11_NeverZero ==
    (status = "reset" /\ Configured(dev))
    => (dev.mclk_hz # 0 /\ dev.smclk_hz # 0 /\ dev.aclk_hz # 0)

(***************************************************************************)
(* Two instances in one process: the first is given a sequence of calls,   *)
(* then a second is created from the same argument and given the same      *)
(* sequence.  errno belongs to the process, not to either instance.        *)
(***************************************************************************)
\* the length of the call sequence given to each instance
MaxCalls == 3

TwinArgs == {S_basic, S_basic_plus}

TwinCalls ==
    {[NoCall EXCEPT !.op = "reset"],
     [NoCall EXCEPT !.op = "config", !.key = S_srsel, !.text = S_1_5],
     [NoCall EXCEPT !.op = "config", !.key = S_srsel, !.text = S_1e999],
     [NoCall EXCEPT !.op = "config", !.key = S_lfxt1, !.text = S_32768],
     [NoCall EXCEPT !.op = "write", !.addr = BCSCTL1, !.data = 35],
     [NoCall EXCEPT !.op = "read", !.addr = BCSCTL1],
     [NoCall EXCEPT !.op = "step", !.clocks = [NoClocks EXCEPT !.mclk = 1]]}

\* simio_clock: the class's table of handlers, entered with the call to make
simio_clock(clk, errno0, call, ub) ==
    CASE call.op = "reset" -> [clk |-> clock_reset(clk, ub)]
      [] call.op = "config" ->
             clock_config(clk, call.key, call.text, errno0, ub)
      [] call.op = "write" -> clock_write_b(clk, call.addr, call.data, ub)
      [] call.op = "read" -> clock_read_b(clk, call.addr, ub)
      [] call.op = "step" -> clock_step(clk, call.clocks, ub)

InitTwin ==
    /\ arch \in Builds
    /\ \E t \in TwinArgs :
          /\ dev = clock_create(t, TRUE)
          /\ obs = [phase |-> "first", args |-> t, log |-> <<>>,
                    twin |-> NoDev, got |-> <<>>]
    /\ errno = 0
    /\ status = "created"
    /\ last = NoCall
    /\ nops = 0
    /\ search = NoSearch

\* one call of the sequence: made on the first instance and logged with what
\* it gave, or the next logged call made on the second
TwinCall ==
    /\ status # "sigfpe"
    /\ \/ obs.phase = "first" /\ Len(obs.log) < MaxCalls
       \/ obs.phase = "second" /\ Len(obs.got) < Len(obs.log)
    /\ \E c \in (IF obs.phase = "first" THEN TwinCalls
                 ELSE {obs.log[Len(obs.got) + 1].call}) :
          \E r \in {simio_clock(IF obs.phase = "first" THEN dev ELSE obs.twin,
                                errno, c, arch)} :
              /\ errno' = IF c.op = "config" THEN r.errno ELSE errno
              /\ status' = IF c.op = "step" /\ r.fpe THEN "sigfpe" ELSE status
              /\ last' = c
              /\ dev' = IF obs.phase = "first" /\ c.op # "read"
                        THEN r.clk ELSE dev
              /\ obs' = IF obs.phase = "first"
                        THEN [obs EXCEPT !.log = Append(@, [call |-> c, r |-> r])]
                        ELSE [obs EXCEPT !.got = Append(@, r),
                                         !.twin = IF c.op = "read"
                                                  THEN @ ELSE r.clk]
    /\ nops' = nops + 1
    /\ UNCHANGED <<search, arch>>

\* the second instance is created, from the argument the first was
TwinCreate ==
    /\ status # "sigfpe"
    /\ obs.phase = "first"
    /\ obs' = [obs EXCEPT !.phase = "second",
                          !.twin = clock_create(obs.args, TRUE)]
    /\ UNCHANGED <<dev, errno, status, last, nops, search, arch>>

NextTwin == TwinCall \/ TwinCreate

SpecTwin == InitTwin /\ [][NextTwin]_vars

\* what a caller sees of a call: what the handler gave back, the device's
\* state apart
Observed(r) == [x \in (DOMAIN r) \ {"clk", "errno"} |-> r[x]]

\* C12: a second instance created from the same argument and given the same
\* sequence of calls gives, call by call, what the first gave, and ends in
\* the state the first ended in
C12_Deterministic ==
    obs.phase = "second"
    => /\ \A i \in 1..Len(obs.got) :
              Observed(obs.got[i]) = Observed(obs.log[i].r)
       /\ Len(obs.got) = Len(obs.log) => obs.twin = dev

(***************************************************************************)
(* Register writes on a configured device: each family as created, with    *)
(* its crystals configured or not, and reset; then writes of BCSCTL2 and   *)
(* BCSCTL3 with bytes that take every value of their fields.               *)
(***************************************************************************)
\* the length of the write sequences explored
MaxWrites == 2

RegDevices(ub) ==
    {clock_reset([clock_create(t, TRUE) EXCEPT !.lfxt1_hz = lf, !.xt2_hz = x2],
                 ub) :
        t \in {S_basic, S_basic_plus}, lf \in {0, 32768}, x2 \in {0, 4000000}}

RegBytes == {0, 32, 56, 64, 128, 144, 192, 232}

InitRegs ==
    /\ arch \in Builds
    /\ dev \in RegDevices(arch)
    /\ errno = 0
    /\ status = "reset"
    /\ last = NoCall
    /\ nops = 0
    /\ search = NoSearch
    /\ obs = NoObs

WriteReg ==
    /\ nops < MaxWrites
    /\ \E addr \in {BCSCTL2, BCSCTL3}, data \in RegBytes :
          \E r \in {clock_write_b(dev, addr, data, arch)} :
              /\ dev' = r.clk
              /\ last' = [NoCall EXCEPT !.op = "write", !.addr = addr,
                                        !.data = data, !.ret = r.ret,
                                        !.msgs = r.msgs]
    /\ nops' = nops + 1
    /\ UNCHANGED <<errno, status, search, obs, arch>>

SpecRegs == InitRegs /\ [][WriteReg]_vars

\* the low-frequency source the stored registers select
LowSource(clk) ==
    IF clk.clock_type = CLOCK_TYPE_BASIC_PLUS /\ (clk.bcsctl3 \div 16) % 4 = 2
    THEN clk.vlo_hz ELSE clk.lfxt1_hz

\* the source the SELM field of BCSCTL2 selects for the main domain
MainSource(clk) ==
    CASE (clk.bcsctl2 \div 64) % 4 \in {0, 1} -> clk.dco_hz
      [] (clk.bcsctl2 \div 64) % 4 = 2 ->
             IF clk.xt2_hz # 0 THEN clk.xt2_hz ELSE LowSource(clk)
      [] (clk.bcsctl2 \div 64) % 4 = 3 -> LowSource(clk)

\* C13: the main frequency is the source SELM selects (0, 1: the DCO; 2: the
\* high-frequency crystal, or the low-frequency source when that crystal is
\* unconfigured; 3: the low-frequency source) divided by the DIVM divider; on
\* a Basic+ device with lfxt1 = 32768 Hz and no high-frequency crystal, a
\* write selecting the low-frequency source with divider /1 gives 32768 Hz
C13_MainSelect ==
    /\ dev.mclk_hz = MainSource(dev) \div (2 ^ ((dev.bcsctl2 \div 16) % 4))
    /\ (/\ dev.clock_type = CLOCK_TYPE_BASIC_PLUS
        /\ dev.lfxt1_hz = 32768
        /\ dev.xt2_hz = 0
        /\ dev.bcsctl2 \in {128, 192})
       => dev.mclk_hz = 32768

C13_Witness ==
    /\ last.op = "write"
    /\ last.addr = BCSCTL2
    /\ last.data = 192
    /\ last.ret = 0
    /\ dev.clock_type = CLOCK_TYPE_BASIC_PLUS
    /\ dev.lfxt1_hz = 32768
    /\ dev.xt2_hz = 0
    /\ dev.mclk_hz = 32768

(***************************************************************************)
(* calc_dcoclk in the reset state: each family as created, with a baseline *)
(* and the two ratios as config stores them, then reset.                   *)
(***************************************************************************)
DcoBaselines == {63, 100005, 100020, 750000, 1000000, 1140000}

DcoRatios == {D_1_12, D_1_08, D_1_35, DDec(15, 1)}

DcoDevices ==
    {[clock_create(t, TRUE) EXCEPT
         !.dco4_3_hz = IF t = S_basic THEN b ELSE @,
         !.dco7_3_hz = IF t = S_basic_plus THEN b ELSE @,
         !.srsel = sr, !.sdco = sd] :
        t \in {S_basic, S_basic_plus}, b \in DcoBaselines,
        sr \in {D_1_65, D_1_35}, sd \in DcoRatios}

InitDco ==
    /\ arch \in Builds
    /\ dev \in DcoDevices
    /\ errno = 0
    /\ status = "created"
    /\ last = NoCall
    /\ nops = 0
    /\ search = NoSearch
    /\ obs = NoObs

SpecDco == InitDco /\ [][Reset]_vars

\* C14: in the reset state (tap 3, modulation 0, the family's reference
\* range) the DCO frequency is the configured baseline exactly, for every
\* baseline and every permitted pair of ratios
C14_ResetBaseline ==
    (status = "reset" /\ last.op = "reset")
    => dev.dco_hz = (IF dev.clock_type = CLOCK_TYPE_BASIC
                     THEN dev.dco4_3_hz ELSE dev.dco7_3_hz)

(***************************************************************************)
(* to_frequency: the text of a frequency.  The callers' buffers are all of *)
(* 20 bytes.                                                               *)
(***************************************************************************)
\* x % y of two unsigned 32-bit values, for y > 0 a small divisor
URem32(x, y) ==
    IF x >= 0 THEN x % y
    ELSE (((x - INT32_MIN) % y) + (INT32_MAX % y) + 1) % y

\* reverse(start, end) on the text between the two
RECURSIVE reverse(_)
reverse(s) == IF s = <<>> THEN <<>> ELSE Append(reverse(Tail(s)), Head(s))

\* suppress_suffix_zeroes(buf, end): the text up to the end it returns
RECURSIVE suppress_suffix_zeroes(_)
suppress_suffix_zeroes(s) ==
    IF Len(s) > 1 /\ s[Len(s)] = 48
    THEN suppress_suffix_zeroes(SubSeq(s, 1, Len(s) - 1))
    ELSE IF s # <<>> /\ s[Len(s)] = 46 THEN SubSeq(s, 1, Len(s) - 1)
    ELSE s

\* the do-while loop of to_frequency: the characters written, lowest digit
\* first, and the count of digits
RECURSIVE to_frequency_digits(_, _, _, _)
to_frequency_digits(p, hz, digit, len) ==
    LET p1 == IF digit # 0 /\ digit % 3 = 0 /\ ULess32(hz, 1000)
              THEN Append(p, 46) ELSE p
        p2 == Append(p1, URem32(hz, 10) + 48)
    IN  IF UDiv32(hz, 10) # 0 /\ Len(p2) < len
        THEN to_frequency_digits(p2, UDiv32(hz, 10), digit + 1, len)
        ELSE [p |-> p2, digit |-> digit + 1]

\* to_frequency(hz, buf, len): the text left in buf
to_frequency(hz, len) ==
    LET w == to_frequency_digits(<<>>, hz, 0, len - 4)
        t == IF w.digit > 3 THEN suppress_suffix_zeroes(reverse(w.p))
             ELSE reverse(w.p)
    IN  t \o (IF w.digit > 6 THEN <<77>> ELSE IF w.digit > 3 THEN <<107>> ELSE <<>>)
          \o S_Hz

\* the values formatted: one to four significant digits at every decade of
\* the non-negative int32_t range, and the range's ends
FmtMantissas == {1, 2, 5, 7, 9, 12, 16, 25, 99, 101, 123, 999, 1001, 2147, 4096, 32768}

FmtValues ==
    {0, 1234567, 999999999, 1234567890, INT32_MAX} \cup
    UNION {{m * (10 ^ k) : m \in {x \in FmtMantissas : x <= INT32_MAX \div (10 ^ k)}} :
              k \in 0..9}

InitFmt ==
    /\ arch \in Builds
    /\ dev = NoDev
    /\ errno = 0
    /\ status = "nodev"
    /\ last = NoCall
    /\ nops = 0
    /\ search = NoSearch
    /\ obs = NoObs

ToFrequency ==
    /\ \E hz \in FmtValues :
          last' = [NoCall EXCEPT !.op = "to_frequency", !.data = hz,
                                 !.text = to_frequency(hz, 20)]
    /\ UNCHANGED <<dev, errno, status, nops, search, obs, arch>>

SpecFmt == InitFmt /\ [][ToFrequency]_vars

\* the number a text of decimal digits denotes
RECURSIVE DigitsValue(_)
DigitsValue(s) ==
    IF s = <<>> THEN 0 ELSE 10 * DigitsValue(SubSeq(s, 1, Len(s) - 1)) + (s[Len(s)] - 48)

\* the count of decimal digits of a natural number
RECURSIVE NDigits(_)
NDigits(n) == IF n < 10 THEN 1 ELSE 1 + NDigits(n \div 10)

\* the parts of a frequency text: its number with the point taken out, the
\* count of digits after the point, and the power of ten of its suffix
FmtParts(text) ==
    LET body == SubSeq(text, 1, Len(text) - 2)
        unit == IF body # <<>> /\ body[Len(body)] = 77 THEN 6
                ELSE IF body # <<>> /\ body[Len(body)] = 107 THEN 3 ELSE 0
        num  == IF unit = 0 THEN body ELSE SubSeq(body, 1, Len(body) - 1)
        pts  == {i \in 1..Len(num) : num[i] = 46}
        pt   == IF pts = {} THEN Len(num) + 1 ELSE CHOOSE i \in pts : TRUE
    IN  [num |-> num, unit |-> unit, pts |-> pts,
         frac |-> IF pts = {} THEN 0 ELSE Len(num) - pt,
         digits |-> SubSeq(num, 1, pt - 1) \o SubSeq(num, pt + 1, Len(num))]

\* the text is a number with at most one point and a suffix, and the number
\* scaled by the suffix is hz
Denotes(text, hz) ==
    LET f == FmtParts(text)
    IN  /\ Len(text) >= 3
        /\ SubSeq(text, Len(text) - 1, Len(text)) = S_Hz
        /\ Cardinality(f.pts) <= 1
        /\ f.digits # <<>>
        /\ \A i \in 1..Len(f.digits) : isdigit(f.digits[i])
        /\ IF f.unit >= f.frac
           THEN /\ hz % (10 ^ (f.unit - f.frac)) = 0
                /\ hz \div (10 ^ (f.unit - f.frac)) = DigitsValue(f.digits)
           ELSE /\ DigitsValue(f.digits) % (10 ^ (f.frac - f.unit)) = 0
                /\ DigitsValue(f.digits) \div (10 ^ (f.frac - f.unit)) = hz

\* C15: the text of a non-negative 32-bit value denotes exactly that value;
\* it has no trailing zero after a point and no bare point, and its suffix
\* is none for 1 to 3 digits, "k" for 4 to 6 and "M" for more than 6
C15_FormatDenotes ==
    (last.op = "to_frequency" /\ last.data >= 0)
    => /\ Denotes(last.text, last.data)
       /\ FmtParts(last.text).unit =
              (IF NDigits(last.data) <= 3 THEN 0
               ELSE IF NDigits(last.data) <= 6 THEN 3 ELSE 6)
       /\ LET num == FmtParts(last.text).num
          IN  /\ num[Len(num)] # 46
              /\ FmtParts(last.text).pts # {} => num[Len(num)] # 48

(***************************************************************************)
(* Runs of steps on a reset device whose registers and configuration stay  *)
(* as they are, with the totals a caller adds up from what the steps gave. *)
(***************************************************************************)
InitSteps ==
    /\ arch \in Builds
    /\ dev \in RegDevices(arch)
    /\ errno = 0
    /\ status = "reset"
    /\ last = NoCall
    /\ nops = 0
    /\ search = NoSearch
    /\ obs = [phase |-> "steps", ticks |-> 0, smclk |-> 0, aclk |-> 0]

StepOn ==
    /\ status = "reset"
    /\ nops < MaxOps
    /\ \E n \in StepTicks :
          \E r \in {clock_step(dev, [NoClocks EXCEPT !.mclk = n], arch)} :
              /\ dev' = r.clk
              /\ status' = IF r.fpe THEN "sigfpe" ELSE status
              /\ last' = [NoCall EXCEPT !.op = "step",
                                        !.clocks = [NoClocks EXCEPT !.mclk = n],
                                        !.slots = r.clocks]
              /\ obs' = [obs EXCEPT !.ticks = @ + n,
                                    !.smclk = @ + r.clocks.smclk,
                                    !.aclk = @ + r.clocks.aclk]
    /\ nops' = nops + 1
    /\ UNCHANGED <<errno, search, arch>>

SpecSteps == InitSteps /\ [][StepOn]_vars

\* C16: after any run of steps from a reset device, the ticks reported for
\* a domain add up to floor(N * main_hz / f) for the N main ticks passed in
\* all, and the domain's accumulator is the remainder of that division
C16_NoDrift ==
    (obs.phase = "steps" /\ nops > 0)
    => /\ status # "sigfpe"
       /\ ExactDivision(0, obs.ticks, dev.mclk_hz, dev.smclk_hz,
                        obs.smclk, dev.smclk_counter)
       /\ ExactDivision(0, obs.ticks, dev.mclk_hz, dev.aclk_hz,
                        obs.aclk, dev.aclk_counter)

\* C17: on a Basic+ device, after a handled write of BCSCTL3, the auxiliary
\* frequency is vlo_hz shifted right by the DIVA field when the byte's
\* LFXT1S field is 2, and lfxt1_hz shifted likewise for any other encoding
C17_VloSelect ==
    (/\ last.op = "write"
     /\ last.addr = BCSCTL3
     /\ last.ret = 0
     /\ dev.clock_type = CLOCK_TYPE_BASIC_PLUS)
    => dev.aclk_hz =
          (IF (last.data \div 16) % 4 = 2 THEN dev.vlo_hz ELSE dev.lfxt1_hz)
          \div (2 ^ ((dev.bcsctl1 \div 16) % 4))

(***************************************************************************)
(* config on a reset device of either family, with every key in two        *)
(* spellings, keys that are none, and tokens that are frequencies, ratios  *)
(* or neither.                                                             *)
(***************************************************************************)
\* the length of the config sequences explored
MaxConfigs == 1

ConfigKeys ==
    {S_lfxt1, S_xt2, S_dco4_3, S_vlo, S_dco7_3, S_srsel, S_sdco, S_bogus,
     <<76, 70, 88, 84, 49>>,        \* "LFXT1"
     <<88, 116, 50>>,               \* "Xt2"
     <<68, 67, 79, 52, 95, 51>>,    \* "DCO4_3"
     <<86, 108, 111>>,              \* "Vlo"
     <<68, 67, 79, 55, 95, 51>>,    \* "DCO7_3"
     <<83, 114, 83, 101, 108>>,     \* "SrSel"
     <<83, 68, 67, 79>>,            \* "SDCO"
     <<108, 102, 120, 116>>}        \* "lfxt"

ConfigTexts ==
    {S_32768, S_1_5,
     <<51, 50, 46, 55, 54, 56, 107, 72, 122>>,   \* "32.768kHz"
     <<49, 77, 72, 122>>,                        \* "1MHz"
     <<49, 109, 104, 122>>,                      \* "1mhz"
     <<49, 48, 48, 72, 122>>,                    \* "100Hz"
     <<51, 48, 48, 48, 77, 72, 122>>,            \* "3000MHz"
     <<49, 50, 120>>}                            \* "12x"

InitConfig ==
    /\ arch \in Builds
    /\ dev \in {clock_reset(clock_create(t, TRUE), arch) : t \in {S_basic, S_basic_plus}}
    /\ errno = 0
    /\ status = "reset"
    /\ last = NoCall
    /\ nops = 0
    /\ search = NoSearch
    /\ obs = NoObs

ConfigKey ==
    /\ nops < MaxConfigs
    /\ \E key \in ConfigKeys, text \in ConfigTexts :
          \E r \in {clock_config(dev, key, text, errno, arch)} :
              /\ dev' = r.clk
              /\ errno' = r.errno
              /\ last' = [NoCall EXCEPT !.op = "config", !.key = key,
                                        !.text = text, !.ret = r.ret]
    /\ nops' = nops + 1
    /\ UNCHANGED <<status, search, obs, arch>>

SpecConfig == InitConfig /\ [][ConfigKey]_vars

\* a key in lower case
Lower(key) == [i \in 1..Len(key) |-> tolower(key[i])]

\* the keys of a family and the field each configures
KeyField(clock_type) ==
    [k \in {S_lfxt1, S_xt2, S_srsel, S_sdco} \cup
           (IF clock_type = CLOCK_TYPE_BASIC THEN {S_dco4_3}
            ELSE {S_vlo, S_dco7_3}) |->
        CASE k = S_lfxt1 -> "lfxt1_hz"
          [] k = S_xt2 -> "xt2_hz"
          [] k = S_srsel -> "srsel"
          [] k = S_sdco -> "sdco"
          [] k = S_dco4_3 -> "dco4_3_hz"
          [] k = S_vlo -> "vlo_hz"
          [] k = S_dco7_3 -> "dco7_3_hz"]

\* C18: config takes the keys lfxt1, xt2, srsel and sdco on both families,
\* dco4_3 on Basic only, vlo and dco7_3 on Basic+ only, in any case of
\* letters: with such a key a valid token is stored in the key's field and
\* the call returns 0; with any other key the call returns -1 and the
\* device is left as it was
C18_KeysByFamily ==
    [][(last'.op = "config" /\ nops' # nops)
       => IF Lower(last'.key) \in DOMAIN KeyField(dev.clock_type)
          THEN LET field == KeyField(dev.clock_type)[Lower(last'.key)]
               IN  /\ (field \notin {"srsel", "sdco"} /\ last'.text = S_32768)
                      => (last'.ret = 0 /\ dev'[field] = 32768)
                   /\ (field \in {"srsel", "sdco"} /\ last'.text = S_1_5
                       /\ errno # ERANGE)
                      => (last'.ret = 0 /\ dev'[field] = DDec(15, 1))
          ELSE last'.ret = 0 - 1 /\ dev' = dev]_vars

C18_Witness ==
    /\ last.op = "config"
    /\ last.key = <<68, 67, 79, 55, 95, 51>>
    /\ last.text = S_32768
    /\ last.ret = 0
    /\ dev.clock_type = CLOCK_TYPE_BASIC_PLUS
    /\ dev.dco7_3_hz = 32768

\* the tokens that are frequencies: the number their digits make with the
\* point taken out, the count of digits after the point, and the power of
\* ten of the unit
TokenParts ==
    [t \in ConfigTexts \ {<<49, 50, 120>>} |->
        CASE t = S_32768 -> [digits |-> 32768, frac |-> 0, unit |-> 0]
          [] t = S_1_5 -> [digits |-> 15, frac |-> 1, unit |-> 0]
          [] t = <<51, 50, 46, 55, 54, 56, 107, 72, 122>> ->
                 [digits |-> 32768, frac |-> 3, unit |-> 3]
          [] t = <<49, 77, 72, 122>> -> [digits |-> 1, frac |-> 0, unit |-> 6]
          [] t = <<49, 109, 104, 122>> -> [digits |-> 1, frac |-> 0, unit |-> 6]
          [] t = <<49, 48, 48, 72, 122>> -> [digits |-> 100, frac |-> 0, unit |-> 0]
          [] t = <<51, 48, 48, 48, 77, 72, 122>> ->
                 [digits |-> 3000, frac |-> 0, unit |-> 6]]

\* hz is the token's value in Hz, whole: digits * 10^unit / 10^frac
TokenHz(t, hz) ==
    /\ hz >= 0
    /\ BCmp(BMul(BN(hz), BN(10 ^ t.frac)), BMul(BN(t.digits), BN(10 ^ t.unit))) <= 0
    /\ BCmp(BMul(BN(t.digits), BN(10 ^ t.unit)), BMul(BN(hz + 1), BN(10 ^ t.frac))) < 0

\* C20: config of a frequency key with a token of digits, an optional point
\* and a unit stores the token's value in Hz, which is never negative, and
\* returns 0; with any other token it returns -1 and leaves the device's
\* stored and derived frequencies as they were
C20_TokenValue ==
    [][(/\ last'.op = "config"
        /\ nops' # nops
        /\ Lower(last'.key) \in DOMAIN KeyField(dev.clock_type)
        /\ KeyField(dev.clock_type)[Lower(last'.key)] \notin {"srsel", "sdco"})
       => IF last'.text \in DOMAIN TokenParts
          THEN /\ last'.ret = 0
               /\ TokenHz(TokenParts[last'.text],
                          dev'[KeyField(dev.clock_type)[Lower(last'.key)]])
          ELSE last'.ret = 0 - 1 /\ dev' = dev]_vars

\* the range of a crystal mode: of XT2S for the high-frequency crystal, of
\* LFXT1S in high-frequency mode for the other; mode 3 is the digital input
CrystalRange(name, mode) ==
    CASE mode = 0 -> [low |-> 400000, high |-> 1000000]
      [] mode = 1 -> [low |-> 1000000, high |-> IF name = "XT2" THEN 4000000 ELSE 3000000]
      [] mode = 2 -> [low |-> IF name = "XT2" THEN 2000000 ELSE 3000000, high |-> 16000000]
      [] OTHER -> [low |-> 0, high |-> 0]

\* a crystal configured to hz, in a mode that has a range, outside it
OutOfRange(hz, name, mode) ==
    /\ hz # 0
    /\ mode # 3
    /\ hz < CrystalRange(name, mode).low \/ hz > CrystalRange(name, mode).high

\* C19: a write of BCSCTL3 on a Basic+ device returns 0, and prints a range
\* diagnostic for a crystal only when the crystal is configured nonzero and
\* outside the range of the mode the byte selects; for a crystal left at 0
\* it prints none
C19_RangeDiagnostic ==
    (/\ last.op = "write"
     /\ last.addr = BCSCTL3
     /\ dev.clock_type = CLOCK_TYPE_BASIC_PLUS)
    => /\ last.ret = 0
       /\ (\E i \in DOMAIN last.msgs : last.msgs[i] = "XT2 range")
          => OutOfRange(dev.xt2_hz, "XT2", (last.data \div 64) % 4)
       /\ (\E i \in DOMAIN last.msgs : last.msgs[i] = "LFXT1 range")
          => OutOfRange(dev.lfxt1_hz, "LFXT1", (last.data \div 16) % 4)
====
